---- MODULE Spec2Model ----
(***************************************************************************)
(* Model of the playback orchestrator PlayerController                     *)
(* (src/src/app/player/crunchyroll.ts, lines 83-323).                      *)
(*                                                                         *)
(* The program is single threaded: every handler runs to completion, and   *)
(* an async handler is split at its await.  The part before the await is   *)
(* one action (OnPlayerReady, OnNextVideo); the continuation after the     *)
(* await runs when the media resolution settles (Settle).                  *)
(*                                                                         *)
(* The variable last is a history variable: it records, for the handler    *)
(* that ran last, the state it started from, its inputs and the calls it   *)
(* made on its collaborators, in the order of the code.                    *)
(***************************************************************************)
EXTENDS Integers, Sequences, FiniteSets, TLC

\* Bound on the number of media resolutions issued in one session
\* (the initial one of onPlayerReady and those of honored next-video events).
MaxRequests == 3

\* Bound on api.getCurrentTime(), in tenths of a second.
MaxTime10 == 12

----------------------------------------------------------------------------
\* URLs.  A URL string is modelled by its path, its query string as the
\* sequence of key/value pairs in the order they are written, and its hash.

PageUrl == [path |-> "/ep1", query |-> << >>, hash |-> ""]

\* The nextvideo events the player can emit: detail.url and
\* detail.thumbnailUrl of each.
NextVideoEvents ==
  { [url |-> [path |-> "/ep2", query |-> << >>, hash |-> ""],
     thumbnailUrl |-> "thumb_ep2"],
    [url |-> [path |-> "/ep3", query |-> << <<"lang", "en">>, <<"t", "7">> >>,
              hash |-> "#c"],
     thumbnailUrl |-> "thumb_ep3"] }

\* The values of api.getCurrentTime() tried, in tenths of a second.
Times == {0, 9, MaxTime10}

NoPlayer == "undefined"
ThePlayer == "player"

Digit == <<"0", "1", "2", "3", "4", "5", "6", "7", "8", "9">>

RECURSIVE NumToString(_)
\* Number.prototype.toString() of a non-negative integer.
NumToString(n) ==
  IF n < 10 THEN Digit[n + 1]
  ELSE NumToString(n \div 10) \o Digit[(n % 10) + 1]

\* Math.floor of a non-negative time given in tenths.
Floor10(t10) == t10 \div 10

\* The query object of url-parse: keys in insertion order, one value per key.
HasKey(obj, k) == \E i \in DOMAIN obj : obj[i][1] = k

\* obj[k] = v on a query object: replaces the value of an existing key in
\* place, appends a new key.
ObjSet(obj, k, v) ==
  IF HasKey(obj, k)
  THEN [i \in DOMAIN obj |-> IF obj[i][1] = k THEN <<k, v>> ELSE obj[i]]
  ELSE Append(obj, <<k, v>>)

\* obj[k] on a query object that has the key.
ObjGet(obj, k) == obj[CHOOSE i \in DOMAIN obj : obj[i][1] = k][2]

RECURSIVE ParseQuery(_)
\* parse(url, true): the query string becomes a query object, built pair by
\* pair in the order of the string.
ParseQuery(q) ==
  IF q = << >> THEN << >>
  ELSE LET n == Len(q)
       IN  ObjSet(ParseQuery(SubSeq(q, 1, n - 1)), q[n][1], q[n][2])

\* url.toString(): the query object is written back, key by key.
UrlToString(path, obj, hash) ==
  [path |-> path, query |-> [i \in 1..Len(obj) |-> obj[i]], hash |-> hash]

----------------------------------------------------------------------------
VARIABLES
  rendered,      \* render() has mounted the Player widget
  readyFired,    \* the widget has signalled readiness (ref callback)
  autoPlay,      \* _autoPlay: "undefined", "true" or "false"
  player,        \* _player: NoPlayer or ThePlayer
  listeners,     \* listeners registered on the player api, per event name
  url,           \* _url, the tracked page URL
  changedMedia,  \* _changedMedia
  tracking,      \* _tracking: 0 (undefined) or the tracker of that media
  trackers,      \* every VideoTracker created: its media and disposed flag
  requests,      \* every media resolution issued, in the order of issue:
                 \* its call, its originating URL, its status, and how often
                 \* and under which tracked URL the load step ran for it
  fullscreen,    \* api.isFullscreen()
  config,        \* the config the player widget holds
  escaped,       \* handler promises rejected with nothing catching them
  last,          \* history of the handler that ran last: its name, its
                 \* inputs and the calls it made (on the event, the trackers,
                 \* the player, the resolution service, the page layout and
                 \* location), in the order of the code
  \* SpeedSliderComponent; speeds are in hundredths (0.05 is 5)
  value,         \* _value
  minValue,      \* _minValue
  maxValue,      \* _maxValue
  dragging,      \* _dragging
  sliderWidth,   \* _sliderWidth
  sliderLast,    \* history of the slider method that ran last
  \* one ProgressTracker and the reports it issued through trackProgress
  callCount,     \* the tracker's attempt counter
  timerOn,       \* the tracker's periodic timer is running
  tickPending,   \* the timer has expired and its callback has not run yet
  disposals,     \* how often dispose() was called on the tracker
  reports,       \* every trackProgress call: its cbcallcount and status
  trackerLast    \* history of the tracker step that ran last

orchestratorVars ==
  <<rendered, readyFired, autoPlay, player, listeners, url, changedMedia,
    tracking, trackers, requests, fullscreen, config, escaped, last>>

sliderVars ==
  <<value, minValue, maxValue, dragging, sliderWidth, sliderLast>>

trackerVars == <<callCount, timerOn, tickPending, disposals, reports, trackerLast>>

vars == <<orchestratorVars, sliderVars, trackerVars>>

\* SpeedSliderComponent's constructor, lines 356-358, in hundredths.
MinSpeed == 50
MaxSpeed == 400
IncrementValue == 5

\* The slider as constructed for a player at normal speed, not mounted.
SliderIdle ==
  /\ value = 100
  /\ minValue = MinSpeed
  /\ maxValue = MaxSpeed
  /\ dragging = FALSE
  /\ sliderWidth = 0
  /\ sliderLast = [op |-> "init"]

\* No tracker at work.
TrackerIdle ==
  /\ callCount = 0
  /\ timerOn = FALSE
  /\ tickPending = FALSE
  /\ disposals = 0
  /\ reports = << >>
  /\ trackerLast = [op |-> "init"]

EventNames == {"fullscreenchange", "nextvideo"}

\* Trackers created and not yet disposed.
Active(trs) == {tr \in trs : ~tr.disposed}

\* A disposal that is skipped.
DisposeTrackingSkipped(trs, t) == trs

\* this._tracking.dispose() guarded by if (this._tracking).
DisposeTracking(trs, t) ==
  IF t # 0
  THEN {IF tr.media = t THEN [tr EXCEPT !.disposed = TRUE] ELSE tr : tr \in trs}
  ELSE trs

\* The call log entry of that disposal, if it happens.
DisposeCalls(t) ==
  IF t # 0 THEN << [call |-> "dispose", tracker |-> t] >> ELSE << >>

NoArg == [none |-> TRUE]

Init ==
  /\ rendered = FALSE
  /\ readyFired = FALSE
  /\ autoPlay \in {"undefined", "true", "false"}
  /\ player = NoPlayer
  /\ listeners = [n \in EventNames |-> 0]
  /\ url = PageUrl
  /\ changedMedia = FALSE
  /\ tracking = 0
  /\ trackers = {}
  /\ requests = << >>
  /\ fullscreen = FALSE
  /\ config = [source |-> "none", thumbnailUrl |-> "undefined", media |-> 0,
               autoplay |-> FALSE]
  /\ escaped = 0
  /\ last = [op |-> "init", arg |-> NoArg, calls |-> << >>]
  /\ SliderIdle
  /\ TrackerIdle

----------------------------------------------------------------------------
\* _getDefaultConfig(): the thumbnail found in the page for _mediaId, if any.
DefaultConfig(thumb) ==
  [source |-> "default", thumbnailUrl |-> thumb, media |-> 0, autoplay |-> FALSE]

\* A placeholder that shows the thumbnail of the page's own media.
PlaceholderConfigOfPage(thumb) ==
  [source |-> "placeholder", thumbnailUrl |-> "thumb_ep1", media |-> 0,
   autoplay |-> FALSE]

\* The placeholder config of _onNextVideo: only detail.thumbnailUrl.
PlaceholderConfig(thumb) ==
  [source |-> "placeholder", thumbnailUrl |-> thumb, media |-> 0, autoplay |-> FALSE]

\* An autoplay flag taken from the Media whatever the override.
ResolvedAutoplayOfMedia(media) == media.autoplay

\* The autoplay flag of videoConfig: the override when given, else the
\* Media's own flag.
ResolvedAutoplay(media) ==
  IF autoPlay = "undefined" THEN media.autoplay ELSE autoPlay = "true"

\* The en dash (U+2013) of the title, written in ASCII.
EnDash == "<U+2013>"

\* A title written with a plain hyphen.
TitleWithHyphen(media) ==
  media.series \o " Episode " \o NumToString(media.episodeNumber)
    \o " - " \o media.episodeTitle

\* The title _loadMedia constructs from the Media's metadata.
Title(media) ==
  media.series \o " Episode " \o NumToString(media.episodeNumber)
    \o " " \o EnDash \o " " \o media.episodeTitle

\* NextVideo.fromUrlUsingDocument(url): the descriptor parsed from the page
\* fragment of the next video, none (the empty sequence) when the fragment
\* does not parse; doc is the state of that fragment.
FromUrlUsingDocument(nextVideoUrl, doc) ==
  IF doc = "malformed" THEN << >>
  ELSE << [episodeNumber |-> "2", episodeTitle |-> "Next",
           duration |-> IF doc = "ok" THEN "1420" ELSE "undefined",
           url |-> nextVideoUrl, thumbnailUrl |-> "thumb_next"] >>

\* A next-video section built whether or not a descriptor was parsed.
NextVideoSectionUnchecked(media) ==
  IF media.nextVideoUrl = "" THEN << >>
  ELSE << [title |-> "2: Next", duration |-> "NaN",
           url |-> media.nextVideoUrl, thumbnailUrl |-> "thumb_next"] >>

\* videoConfig.nextVideo of _loadMedia: set only when the Media has a
\* next-video URL and a descriptor was parsed for it; the empty sequence is
\* a config without that section.
NextVideoSection(media) ==
  IF media.nextVideoUrl = "" THEN << >>
  ELSE LET parsed == FromUrlUsingDocument(media.nextVideoUrl, media.nextVideoDoc)
       IN  IF parsed = << >> THEN << >>
           ELSE << [title |-> parsed[1].episodeNumber \o ": "
                                \o parsed[1].episodeTitle,
                    duration |-> IF parsed[1].duration = "undefined"
                                 THEN "NaN" ELSE parsed[1].duration,
                    url |-> parsed[1].url,
                    thumbnailUrl |-> parsed[1].thumbnailUrl] >>

\* videoConfig of _loadMedia.
VideoConfig(media) ==
  [source |-> "media", thumbnailUrl |-> "episode_image", media |-> media.req,
   autoplay |-> ResolvedAutoplay(media), title |-> Title(media),
   nextVideo |-> NextVideoSection(media)]

\* The Media the resolution service returns for request i of URL u, with own
\* autoplay flag ap: each page has its metadata, its next-video URL and the
\* state of that next video's page fragment.
ResolvedMedia(i, u, ap) ==
  LET page ==
        CASE u.path = "/ep1" ->
               [series |-> "Show", episodeNumber |-> 1, episodeTitle |-> "Pilot",
                nextVideoUrl |-> "/ep2", nextVideoDoc |-> "ok"]
          [] u.path = "/ep2" ->
               [series |-> "Show", episodeNumber |-> 2, episodeTitle |-> "Second",
                nextVideoUrl |-> "/ep3", nextVideoDoc |-> "malformed"]
          [] OTHER ->
               [series |-> "Other Show", episodeNumber |-> 12,
                episodeTitle |-> "Finale",
                nextVideoUrl |-> "", nextVideoDoc |-> "malformed"]
  IN  [req |-> i, url |-> u, autoplay |-> ap, series |-> page.series,
       episodeNumber |-> page.episodeNumber, episodeTitle |-> page.episodeTitle,
       nextVideoUrl |-> page.nextVideoUrl, nextVideoDoc |-> page.nextVideoDoc]

\* A load step that creates the new tracker without disposing the old one.
LoadMediaNoDispose(media) ==
  IF player = NoPlayer
  THEN [trackers |-> trackers, tracking |-> tracking, config |-> config,
        calls |-> << >>]
  ELSE LET cfg  == VideoConfig(media)
           trs2 == trackers \cup {[media |-> media.req, disposed |-> FALSE]}
       IN  [trackers |-> trs2,
            tracking |-> media.req,
            config   |-> cfg,
            calls    |-> << [call |-> "newTracker", media |-> media.req,
                             activeBefore |-> Cardinality(Active(trackers))] >>
                         \o << [call |-> IF cfg.autoplay THEN "loadVideoByConfig"
                                         ELSE "cueVideoByConfig",
                                config |-> cfg] >>]

\* _loadMedia(media): the new values of the fields it writes and the calls it
\* makes, in the order of the code.
LoadMedia(media) ==
  IF player = NoPlayer
  THEN [trackers |-> trackers, tracking |-> tracking, config |-> config,
        calls |-> << >>]
  ELSE LET trs1 == DisposeTracking(trackers, tracking)
           cfg  == VideoConfig(media)
           trs2 == trs1 \cup {[media |-> media.req, disposed |-> FALSE]}
       IN  [trackers |-> trs2,
            tracking |-> media.req,
            config   |-> cfg,
            calls    |-> DisposeCalls(tracking)
                         \o << [call |-> "newTracker", media |-> media.req,
                                activeBefore |-> Cardinality(Active(trs1))] >>
                         \o << [call |-> IF cfg.autoplay THEN "loadVideoByConfig"
                                         ELSE "cueVideoByConfig",
                                config |-> cfg] >>]

\* render(): mounts the Player widget with the default config.  The host page
\* calls it once.
Render ==
  /\ ~rendered
  /\ rendered' = TRUE
  /\ \E thumb \in {"undefined", "thumb_ep1"} : config' = DefaultConfig(thumb)
  /\ last' = [op |-> "render", arg |-> NoArg, calls |-> << >>]
  /\ UNCHANGED <<readyFired, autoPlay, player, listeners, url,
                 changedMedia, tracking, trackers, requests, fullscreen,
                 escaped>>
  /\ UNCHANGED <<sliderVars, trackerVars>>

\* The mounted widget signals readiness through the ref callback, once.
ReadySignal == rendered /\ ~readyFired

\* _onPlayerReady(player) up to its await: stores the handle, registers the
\* two listeners and issues getMedia.
OnPlayerReady ==
  /\ ReadySignal
  /\ readyFired' = TRUE
  /\ player' = ThePlayer
  /\ listeners' = [listeners EXCEPT !["fullscreenchange"] = @ + 1,
                                    !["nextvideo"] = @ + 1]
  /\ requests' = Append(requests,
        [kind |-> "getMedia", url |-> url, autoPlayOption |-> autoPlay,
         overtook |-> {}, status |-> "pending", loads |-> 0,
         trackedAtLoad |-> url])
  /\ last' = [op |-> "playerready", arg |-> NoArg,
              calls |-> << [call |-> "listen", event |-> "fullscreenchange"],
                           [call |-> "listen", event |-> "nextvideo"],
                           [call |-> "getMedia", url |-> url] >>]
  /\ UNCHANGED <<rendered, autoPlay, url, changedMedia, tracking,
                 trackers, fullscreen, config, escaped>>
  /\ UNCHANGED <<sliderVars, trackerVars>>

\* The user or the page switches the player into or out of fullscreen.
SetFullscreen(b) ==
  /\ player # NoPlayer
  /\ fullscreen # b
  /\ fullscreen' = b
  /\ last' = [op |-> "setfullscreen", arg |-> NoArg,
              calls |-> << >>]
  /\ UNCHANGED <<rendered, readyFired, autoPlay, player, listeners,
                 url, changedMedia, tracking, trackers, requests, config,
                 escaped>>
  /\ UNCHANGED <<sliderVars, trackerVars>>

\* A redirect that builds a fresh query holding only t.
RedirectUrlFreshQuery(u, ct10) ==
  UrlToString(u.path, ObjSet(<< >>, "t", NumToString(Floor10(ct10))), u.hash)

\* The URL _onFullscreenChange redirects to: the tracked URL with its query
\* parameter t set to the floor of the current time.
RedirectUrl(u, ct10) ==
  LET query == ParseQuery(u.query)
  IN  UrlToString(u.path, ObjSet(query, "t", NumToString(Floor10(ct10))), u.hash)

\* A fullscreen-exit guard without the changedMedia test.
FullscreenExitRedirectsAlways == player # NoPlayer /\ ~fullscreen

\* The two early returns of _onFullscreenChange: it goes on to redirect only
\* with a player that is not in fullscreen, after the media has changed.
FullscreenExitRedirects ==
  player # NoPlayer /\ ~fullscreen /\ changedMedia

\* _onFullscreenChange(), called by the player api for a fullscreenchange
\* event; ct10 is api.getCurrentTime().
OnFullscreenChange(ct10) ==
  /\ listeners["fullscreenchange"] > 0
  /\ IF ~FullscreenExitRedirects
     THEN last' = [op |-> "fullscreenchange",
                   arg |-> [currentTime10 |-> ct10], calls |-> << >>]
     ELSE last' = [op |-> "fullscreenchange",
                   arg |-> [currentTime10 |-> ct10],
                   calls |-> << [call |-> "location.href",
                                 value |-> RedirectUrl(url, ct10)] >>]
  /\ UNCHANGED <<rendered, readyFired, autoPlay, player, listeners,
                 url, changedMedia, tracking, trackers, requests, fullscreen,
                 config, escaped>>
  /\ UNCHANGED <<sliderVars, trackerVars>>

\* A next-video guard without the fullscreen test.
NextVideoHonoredAnyMode == player # NoPlayer

\* The early return of _onNextVideo: the event is honored only with a player
\* that is in fullscreen.
NextVideoHonored == player # NoPlayer /\ fullscreen

\* _onNextVideo(e) up to its await, called by the player api for a nextvideo
\* event.
OnNextVideo(e) ==
  /\ listeners["nextvideo"] > 0
  /\ IF ~NextVideoHonored
     THEN /\ last' = [op |-> "nextvideo", arg |-> e,
                      calls |-> << >>]
          /\ UNCHANGED <<url, changedMedia, tracking, trackers, requests,
                         config>>
     ELSE /\ Len(requests) < MaxRequests
          /\ url' = e.url
          /\ changedMedia' = TRUE
          /\ trackers' = DisposeTracking(trackers, tracking)
          /\ tracking' = 0
          /\ config' = PlaceholderConfig(e.thumbnailUrl)
          /\ requests' = Append(requests,
                [kind |-> "getMediaByUrl", url |-> e.url,
                 autoPlayOption |-> "true",
                 overtook |-> {i \in DOMAIN requests :
                                 requests[i].status = "pending"},
                 status |-> "pending", loads |-> 0, trackedAtLoad |-> e.url])
          /\ last' = [op |-> "nextvideo", arg |-> e,
                      calls |->
                        << [call |-> "preventDefault"] >>
                        \o DisposeCalls(tracking)
                        \o << [call |-> "loadVideoByConfig",
                               config |-> PlaceholderConfig(e.thumbnailUrl)] >>
                        \o << [call |-> "getMediaByUrl", url |-> e.url,
                               tracked |-> e.url, changedMedia |-> TRUE,
                               active |-> Active(DisposeTracking(trackers, tracking)),
                               config |-> PlaceholderConfig(e.thumbnailUrl)] >>]
  /\ UNCHANGED <<rendered, readyFired, autoPlay, player, listeners,
                 fullscreen, escaped>>
  /\ UNCHANGED <<sliderVars, trackerVars>>

\* A continuation that clears changedMedia once the new media is loaded.
SettleResolvedClearsFlag(i, ap) ==
  /\ i \in DOMAIN requests
  /\ requests[i].status = "pending"
  /\ LET media == ResolvedMedia(i, requests[i].url, ap)
         r == LoadMedia(media)
     IN  /\ trackers' = r.trackers
         /\ tracking' = r.tracking
         /\ config' = r.config
         /\ last' = [op |-> "resolved", arg |-> media, calls |-> r.calls]
  /\ requests' = [requests EXCEPT ![i].status = "resolved",
                                  ![i].loads = @ + 1,
                                  ![i].trackedAtLoad = url]
  /\ changedMedia' = FALSE
  /\ UNCHANGED <<rendered, readyFired, autoPlay, player, listeners,
                 url, fullscreen, escaped>>
  /\ UNCHANGED <<sliderVars, trackerVars>>

\* The continuation of _onPlayerReady and _onNextVideo after the await, when
\* resolution i fulfils with a Media whose own autoplay flag is ap: the load
\* step runs.
SettleResolved(i, ap) ==
  /\ i \in DOMAIN requests
  /\ requests[i].status = "pending"
  /\ LET media == ResolvedMedia(i, requests[i].url, ap)
         r == LoadMedia(media)
     IN  /\ trackers' = r.trackers
         /\ tracking' = r.tracking
         /\ config' = r.config
         /\ last' = [op |-> "resolved", arg |-> media,
                     calls |-> r.calls]
  /\ requests' = [requests EXCEPT ![i].status = "resolved",
                                  ![i].loads = @ + 1,
                                  ![i].trackedAtLoad = url]
  /\ UNCHANGED <<rendered, readyFired, autoPlay, player, listeners,
                 url, changedMedia, fullscreen, escaped>>
  /\ UNCHANGED <<sliderVars, trackerVars>>

\* Resolution i rejects: the await throws inside the async handler, whose
\* body has no try/catch, so the promise the handler returned rejects; the
\* arrow functions that called the handler attach nothing to that promise.
SettleRejected(i) ==
  /\ i \in DOMAIN requests
  /\ requests[i].status = "pending"
  /\ requests' = [requests EXCEPT ![i].status = "rejected"]
  /\ escaped' = escaped + 1
  /\ last' = [op |-> "rejected", arg |-> [req |-> i],
              calls |-> << >>]
  /\ UNCHANGED <<rendered, readyFired, autoPlay, player, listeners,
                 url, changedMedia, tracking, trackers, fullscreen, config>>
  /\ UNCHANGED <<sliderVars, trackerVars>>

\* A size-change guard without the player test.
SizeChangeAppliesNoPlayer(containers) == containers

\* The two early returns of _onSizeChange: it goes on only with a player and
\* with all three layout containers.
SizeChangeApplies(containers) == player # NoPlayer /\ containers

\* A size change that resumes playback whatever the playback state was.
OnSizeChangeAlwaysPlays(large, containers, playing) ==
  /\ rendered
  /\ IF ~SizeChangeApplies(containers)
     THEN last' = [op |-> "sizechange",
                   arg |-> [large |-> large, containers |-> containers,
                            playing |-> playing],
                   calls |-> << >>]
     ELSE last' = [op |-> "sizechange",
                   arg |-> [large |-> large, containers |-> containers,
                            playing |-> playing],
                   calls |-> << [call |-> "swapLayout", large |-> large],
                                [call |-> "playVideo", resume |-> TRUE] >>]
  /\ UNCHANGED <<rendered, readyFired, autoPlay, player, listeners,
                 url, changedMedia, tracking, trackers, requests, fullscreen,
                 config, escaped>>
  /\ UNCHANGED <<sliderVars, trackerVars>>

\* _onSizeChange(large), called by the Player widget; containers tells
\* whether #showmedia, #showmedia_video and #main_content are all found,
\* playing whether api.getPreferredPlaybackState() is PLAYING.
OnSizeChange(large, containers, playing) ==
  /\ rendered
  /\ IF ~SizeChangeApplies(containers)
     THEN last' = [op |-> "sizechange", arg |-> [large |-> large, containers |-> containers,
                               playing |-> playing],
                      calls |-> << >>]
     ELSE last' = [op |-> "sizechange", arg |-> [large |-> large, containers |-> containers,
                               playing |-> playing],
                      calls |-> << [call |-> "swapLayout", large |-> large] >>
                                \o IF playing
                                   THEN << [call |-> "playVideo", resume |-> TRUE] >>
                                   ELSE << >>]
  /\ UNCHANGED <<rendered, readyFired, autoPlay, player, listeners,
                 url, changedMedia, tracking, trackers, requests, fullscreen,
                 config, escaped>>
  /\ UNCHANGED <<sliderVars, trackerVars>>

Next ==
  \/ Render
  \/ OnPlayerReady
  \/ \E b \in BOOLEAN : SetFullscreen(b)
  \/ \E ct10 \in Times : OnFullscreenChange(ct10)
  \/ \E e \in NextVideoEvents : OnNextVideo(e)
  \/ \E i \in 1..MaxRequests, ap \in BOOLEAN : SettleResolved(i, ap)
  \/ \E i \in 1..MaxRequests : SettleRejected(i)
  \/ \E large \in BOOLEAN, containers \in BOOLEAN, playing \in BOOLEAN :
        OnSizeChange(large, containers, playing)

Spec == Init /\ [][Next]_vars

----------------------------------------------------------------------------
\* The load step on its own, applied to every kind of Media.

\* The Media objects handed to the load step.
LoadMediaInputs ==
  [req : {1, 2}, url : {PageUrl}, autoplay : BOOLEAN,
   series : {"Show", "Other Show"}, episodeNumber : {1, 12},
   episodeTitle : {"Pilot", "Finale"}, nextVideoUrl : {"", "/ep2"},
   nextVideoDoc : {"malformed", "ok", "ok_noduration"}]

\* The orchestrator with its player ready and nothing loaded yet.
LoadInit ==
  /\ rendered = TRUE
  /\ readyFired = TRUE
  /\ autoPlay \in {"undefined", "true", "false"}
  /\ player = ThePlayer
  /\ listeners = [n \in EventNames |-> 1]
  /\ url = PageUrl
  /\ changedMedia = FALSE
  /\ tracking = 0
  /\ trackers = {}
  /\ requests = << >>
  /\ fullscreen = FALSE
  /\ config = DefaultConfig("undefined")
  /\ escaped = 0
  /\ last = [op |-> "init", arg |-> NoArg, calls |-> << >>]
  /\ SliderIdle
  /\ TrackerIdle

\* _loadMedia(media).
LoadStep(media) ==
  /\ LET r == LoadMedia(media)
     IN  /\ trackers' = r.trackers
         /\ tracking' = r.tracking
         /\ config' = r.config
         /\ last' = [op |-> "load", arg |-> media, calls |-> r.calls]
  /\ UNCHANGED <<rendered, readyFired, autoPlay, player, listeners, url,
                 changedMedia, requests, fullscreen, escaped>>
  /\ UNCHANGED <<sliderVars, trackerVars>>

LoadNext == \E media \in LoadMediaInputs : LoadStep(media)

LoadSpec == LoadInit /\ [][LoadNext]_vars

----------------------------------------------------------------------------
\* SpeedSliderComponent (lines 336-566).  Speeds are in hundredths, pointer
\* positions in pixels relative to the left edge of the slider.

\* Bound on the pointer offsets tried (e.clientX - left).
MaxOffset == 90

\* Pointer offsets: left of the slider, on it, at either width, beyond it.
Offsets == {-3, 0, 1, 26, 51, 52, 78, MaxOffset}

\* Speeds the player reports (api.getSpeed(), speedchange events).
Speeds == {25, 100, 400, 450}

\* Arguments of setValue.
ValueInputs == {25, 50, 100, 105, 400, 450}

\* Arguments of setMinValue and setMaxValue.
BoundInputs == {50, 100, 103, 400}

\* Key codes: End, Home, the four arrows, and Enter for any other key.
KeyCodes == {35, 36, 37, 38, 39, 40, 13}

\* Mouse buttons: primary and secondary.
Buttons == {0, 2}

\* offsetWidth of the handle.
HandleWidths == {12, 16}

\* The slider once mounted: componentDidMount takes the player's speed as
\* the value, unchecked, and measures the slider.
SliderInit ==
  /\ value \in Speeds
  /\ minValue = MinSpeed
  /\ maxValue = MaxSpeed
  /\ dragging = FALSE
  /\ sliderWidth \in {52, 78}
  /\ sliderLast = [op |-> "mount"]

\* A clamp that lets every value through.
ClampNone(v, lo, hi) == v

\* Math.min(Math.max(lo, v), hi).
Clamp(v, lo, hi) ==
  LET m == IF lo > v THEN lo ELSE v
  IN  IF m < hi THEN m ELSE hi

\* setValue(v) on a slider whose value is cur and whose bounds are lo, hi:
\* the new value, whether RangeError is thrown, and the api.setSpeed calls.
SetValueCall(cur, lo, hi, v) ==
  IF cur = v
  THEN [value |-> cur, thrown |-> FALSE, setSpeed |-> << >>]
  ELSE IF v < lo \/ v > hi
       THEN [value |-> cur, thrown |-> TRUE, setSpeed |-> << >>]
       ELSE [value |-> v, thrown |-> FALSE, setSpeed |-> << v >>]

\* _sliderWidth as _onResize sets it.
ResizedWidth(handleWidth) == IF handleWidth = 12 THEN 52 ELSE 78

\* Math.round of the non-negative quotient num / den.
RoundQuotient(num, den) == (2 * num + den) \div (2 * den)

\* The value _onMouseMove computes for pointer offset dx on a slider of the
\* given width: inc * Math.round(percentage * (hi - lo) / inc) + lo.
PointerValue(dx, width, lo, hi) ==
  LET d == Clamp(dx, 0, width)
  IN  IncrementValue * RoundQuotient(d * (hi - lo), width * IncrementValue) + lo

\* setValue(v), called on the component.
SetValue(v) ==
  /\ LET r == SetValueCall(value, minValue, maxValue, v)
     IN  /\ value' = r.value
         /\ sliderLast' = [op |-> "setValue", arg |-> v, thrown |-> r.thrown,
                           setSpeed |-> r.setSpeed]
  /\ UNCHANGED <<minValue, maxValue, dragging, sliderWidth>>
  /\ UNCHANGED <<orchestratorVars, trackerVars>>

\* setMinValue(m): the bound is assigned before the value is restrained.
SetMinValue(m) ==
  /\ IF minValue = m
     THEN /\ UNCHANGED <<value, minValue>>
          /\ sliderLast' = [op |-> "setMinValue", arg |-> m, thrown |-> FALSE,
                            setSpeed |-> << >>]
     ELSE IF m >= maxValue
     THEN /\ UNCHANGED <<value, minValue>>
          /\ sliderLast' = [op |-> "setMinValue", arg |-> m, thrown |-> TRUE,
                            setSpeed |-> << >>]
     ELSE LET r == SetValueCall(value, m, maxValue, Clamp(value, m, maxValue))
          IN  /\ minValue' = m
              /\ value' = r.value
              /\ sliderLast' = [op |-> "setMinValue", arg |-> m,
                                thrown |-> r.thrown, setSpeed |-> r.setSpeed]
  /\ UNCHANGED <<maxValue, dragging, sliderWidth>>
  /\ UNCHANGED <<orchestratorVars, trackerVars>>

\* setMaxValue(m): the bound is assigned before the value is restrained.
SetMaxValue(m) ==
  /\ IF maxValue = m
     THEN /\ UNCHANGED <<value, maxValue>>
          /\ sliderLast' = [op |-> "setMaxValue", arg |-> m, thrown |-> FALSE,
                            setSpeed |-> << >>]
     ELSE IF m <= minValue
     THEN /\ UNCHANGED <<value, maxValue>>
          /\ sliderLast' = [op |-> "setMaxValue", arg |-> m, thrown |-> TRUE,
                            setSpeed |-> << >>]
     ELSE LET r == SetValueCall(value, minValue, m, Clamp(value, minValue, m))
          IN  /\ maxValue' = m
              /\ value' = r.value
              /\ sliderLast' = [op |-> "setMaxValue", arg |-> m,
                                thrown |-> r.thrown, setSpeed |-> r.setSpeed]
  /\ UNCHANGED <<minValue, dragging, sliderWidth>>
  /\ UNCHANGED <<orchestratorVars, trackerVars>>

\* _onSpeedChange(e): the player's new speed becomes the value, unchecked.
OnSpeedChange(speed) ==
  /\ value' = speed
  /\ sliderLast' = [op |-> "speedchange", arg |-> speed, thrown |-> FALSE,
                    setSpeed |-> << >>]
  /\ UNCHANGED <<minValue, maxValue, dragging, sliderWidth>>
  /\ UNCHANGED <<orchestratorVars, trackerVars>>

\* _onResize(), for a resize event of the player.
OnResize(handleWidth) ==
  /\ sliderWidth' = ResizedWidth(handleWidth)
  /\ sliderLast' = [op |-> "resize", arg |-> handleWidth, thrown |-> FALSE,
                    setSpeed |-> << >>]
  /\ UNCHANGED <<value, minValue, maxValue, dragging>>
  /\ UNCHANGED <<orchestratorVars, trackerVars>>

\* _onMouseDown(e): starts a drag on the primary button, measures the slider
\* and handles the event as a first mouse move.
OnMouseDown(button, dx, handleWidth) ==
  /\ IF dragging \/ button # 0
     THEN /\ UNCHANGED <<value, dragging, sliderWidth>>
          /\ sliderLast' = [op |-> "mousedown",
                            arg |-> [button |-> button, dx |-> dx],
                            thrown |-> FALSE, setSpeed |-> << >>]
     ELSE LET width == ResizedWidth(handleWidth)
              r == SetValueCall(value, minValue, maxValue,
                                PointerValue(dx, width, minValue, maxValue))
          IN  /\ dragging' = TRUE
              /\ sliderWidth' = width
              /\ value' = r.value
              /\ sliderLast' = [op |-> "mousedown",
                                arg |-> [button |-> button, dx |-> dx],
                                thrown |-> r.thrown, setSpeed |-> r.setSpeed]
  /\ UNCHANGED <<minValue, maxValue>>
  /\ UNCHANGED <<orchestratorVars, trackerVars>>

\* _onMouseMove(e), for a mousemove event of the document.
OnMouseMove(dx) ==
  /\ IF ~dragging
     THEN /\ value' = value
          /\ sliderLast' = [op |-> "mousemove", arg |-> [dx |-> dx],
                            thrown |-> FALSE, setSpeed |-> << >>]
     ELSE LET r == SetValueCall(value, minValue, maxValue,
                                PointerValue(dx, sliderWidth, minValue, maxValue))
          IN  /\ value' = r.value
              /\ sliderLast' = [op |-> "mousemove", arg |-> [dx |-> dx],
                                thrown |-> r.thrown, setSpeed |-> r.setSpeed]
  /\ UNCHANGED <<minValue, maxValue, dragging, sliderWidth>>
  /\ UNCHANGED <<orchestratorVars, trackerVars>>

\* _onMouseUp(e): ends the drag on the primary button.
OnMouseUp(button) ==
  /\ dragging' = IF ~dragging \/ button # 0 THEN dragging ELSE FALSE
  /\ sliderLast' = [op |-> "mouseup", arg |-> [button |-> button],
                    thrown |-> FALSE, setSpeed |-> << >>]
  /\ UNCHANGED <<value, minValue, maxValue, sliderWidth>>
  /\ UNCHANGED <<orchestratorVars, trackerVars>>

\* The value _onKeyDown passes to setValue for a key it handles.
KeyValue(keyCode) ==
  CASE keyCode = 35 -> maxValue
    [] keyCode = 36 -> minValue
    [] keyCode \in {37, 40} ->
         Clamp(value - IncrementValue, minValue, maxValue)
    [] keyCode \in {38, 39} ->
         Clamp(value + IncrementValue, minValue, maxValue)

\* _onKeyDown(e).
OnKeyDown(keyCode) ==
  /\ IF keyCode \notin {35, 36, 37, 38, 39, 40}
     THEN /\ value' = value
          /\ sliderLast' = [op |-> "keydown", arg |-> [keyCode |-> keyCode],
                            thrown |-> FALSE, setSpeed |-> << >>]
     ELSE LET r == SetValueCall(value, minValue, maxValue, KeyValue(keyCode))
          IN  /\ value' = r.value
              /\ sliderLast' = [op |-> "keydown", arg |-> [keyCode |-> keyCode],
                                thrown |-> r.thrown, setSpeed |-> r.setSpeed]
  /\ UNCHANGED <<minValue, maxValue, dragging, sliderWidth>>
  /\ UNCHANGED <<orchestratorVars, trackerVars>>

\* The orchestrator as constructed, left alone.
OrchestratorIdle ==
  /\ rendered = FALSE
  /\ readyFired = FALSE
  /\ autoPlay = "undefined"
  /\ player = NoPlayer
  /\ listeners = [n \in EventNames |-> 0]
  /\ url = PageUrl
  /\ changedMedia = FALSE
  /\ tracking = 0
  /\ trackers = {}
  /\ requests = << >>
  /\ fullscreen = FALSE
  /\ config = [source |-> "none", thumbnailUrl |-> "undefined", media |-> 0,
               autoplay |-> FALSE]
  /\ escaped = 0
  /\ last = [op |-> "init", arg |-> NoArg, calls |-> << >>]

SliderNext ==
  \/ \E v \in ValueInputs : SetValue(v)
  \/ \E m \in BoundInputs : SetMinValue(m)
  \/ \E m \in BoundInputs : SetMaxValue(m)
  \/ \E speed \in Speeds : OnSpeedChange(speed)
  \/ \E h \in HandleWidths : OnResize(h)
  \/ \E b \in Buttons, dx \in Offsets, h \in HandleWidths : OnMouseDown(b, dx, h)
  \/ \E dx \in Offsets : OnMouseMove(dx)
  \/ \E b \in Buttons : OnMouseUp(b)
  \/ \E k \in KeyCodes : OnKeyDown(k)

\* A mounted slider beside an orchestrator and a tracker that stay idle.
SliderSpecInit == OrchestratorIdle /\ SliderInit /\ TrackerIdle

SliderSpec == SliderSpecInit /\ [][SliderNext]_vars

----------------------------------------------------------------------------
\* Vocabulary of the properties.

\* The load step ran for resolution i.
Loaded(i) == requests[i].loads > 0

\* The calls named c in a call log.
CallsNamed(calls, c) == {k \in DOMAIN calls : calls[k].call = c}

\* The keys of a query object.
Keys(obj) == {obj[k][1] : k \in DOMAIN obj}

----------------------------------------------------------------------------
\* C11: when the loaded Media has a next-video URL whose page fragment does
\* not parse, the load goes through: the config handed to the player has no
\* next-video section, exactly one tracker is created, bound to that Media,
\* and exactly one of loadVideoByConfig and cueVideoByConfig is called, with
\* that config.
C11_LoadWithoutNextVideo ==
  (last.op = "load" /\ last.arg.nextVideoUrl # ""
     /\ last.arg.nextVideoDoc = "malformed")
  => /\ config.source = "media"
     /\ config.media = last.arg.req
     /\ config.nextVideo = << >>
     /\ Cardinality(CallsNamed(last.calls, "newTracker")) = 1
     /\ \A k \in CallsNamed(last.calls, "newTracker") :
           last.calls[k].media = last.arg.req
     /\ Active(trackers) = {[media |-> last.arg.req, disposed |-> FALSE]}
     /\ Cardinality(CallsNamed(last.calls, "loadVideoByConfig")
                    \cup CallsNamed(last.calls, "cueVideoByConfig")) = 1
     /\ last.calls[Len(last.calls)].config = config

\* C11 happens: a Media with an unparsable next video was cued after a Media
\* whose next video had parsed.
C11_Witness ==
  /\ last.op = "load"
  /\ last.arg.nextVideoUrl = "/ep2"
  /\ last.arg.nextVideoDoc = "malformed"
  /\ CallsNamed(last.calls, "cueVideoByConfig") # {}
  /\ CallsNamed(last.calls, "dispose") # {}

\* C13: the config the load step hands to the player is titled
\* "<series> Episode <number> <en dash> <episode title>", from the metadata of the
\* Media being loaded.
C13_TitleFromOwnMetadata ==
  last.op = "load"
  => /\ config.title = last.arg.series \o " Episode "
                          \o NumToString(last.arg.episodeNumber)
                          \o " <U+2013> " \o last.arg.episodeTitle
     /\ last.calls[Len(last.calls)].config.title = config.title

\* C13 happens: the title of episode 12 "Finale" of "Other Show" was loaded over a Media with
\* other metadata.
C13_Witness ==
  /\ last.op = "load"
  /\ config.title = "Other Show Episode 12 <U+2013> Finale"
  /\ \E tr \in trackers : tr.disposed /\ tr.media # last.arg.req

\* C16: every load step calls exactly one of loadVideoByConfig and
\* cueVideoByConfig: loadVideoByConfig when the autoplay override is true,
\* cueVideoByConfig when it is false, and by the Media's own flag when there
\* is no override; for the initial media and for media resolved after a
\* next-video transition alike.
C16_LoadOrCueByAutoplay ==
  last.op = "resolved"
  => LET loads == CallsNamed(last.calls, "loadVideoByConfig")
         cues  == CallsNamed(last.calls, "cueVideoByConfig")
         auto  == CASE autoPlay = "true" -> TRUE
                    [] autoPlay = "false" -> FALSE
                    [] OTHER -> last.arg.autoplay
     IN  /\ Cardinality(loads \cup cues) = 1
         /\ (loads # {}) <=> auto
         /\ config.autoplay = auto
         /\ config.media = last.arg.req

\* C16 happens: a Media resolved after a next-video transition (autoplay
\* forced true in the resolution call) was cued, the override being false.
C16_Witness ==
  /\ last.op = "resolved"
  /\ requests[last.arg.req].kind = "getMediaByUrl"
  /\ requests[last.arg.req].autoPlayOption = "true"
  /\ last.arg.autoplay
  /\ autoPlay = "false"
  /\ CallsNamed(last.calls, "cueVideoByConfig") # {}

\* C17: a size change with a player and all three containers swaps the
\* layout and then calls playVideo(true) exactly when the preferred playback
\* state read before the swap was PLAYING; without the player handle or one
\* of the containers it changes no layout and calls nothing.
C17_SizeChangeResumesPlayback ==
  [][ last'.op = "sizechange"
        => IF player # NoPlayer /\ last'.arg.containers
           THEN /\ last'.calls[1] = [call |-> "swapLayout",
                                     large |-> last'.arg.large]
                /\ IF last'.arg.playing
                   THEN /\ Len(last'.calls) = 2
                        /\ last'.calls[2] = [call |-> "playVideo",
                                             resume |-> TRUE]
                   ELSE Len(last'.calls) = 1
           ELSE last'.calls = << >> ]_vars

\* C17 happens: the wide layout was applied while playing, and playback was
\* resumed after the swap.
C17_Witness ==
  /\ last.op = "sizechange"
  /\ last.arg.large
  /\ last.arg.playing
  /\ Len(last.calls) = 2
  /\ last.calls[2].call = "playVideo"

\* C18: an active tracker is bound to the Media most recently handed to the
\* player by the load step, and while the placeholder of an honored
\* next-video transition is shown no tracker is active.
C18_TrackerBoundToLoadedMedia ==
  /\ \A tr \in Active(trackers) :
        config.source = "media" /\ config.media = tr.media
  /\ config.source = "placeholder" => Active(trackers) = {}

\* C18 happens: the transition disposed the tracker of the previous media,
\* and the resolution then failed, leaving the placeholder.
C18_Witness ==
  /\ config.source = "placeholder"
  /\ last.op = "rejected"
  /\ \E tr \in trackers : tr.disposed
  /\ Active(trackers) = {}

\* C1: when a second honored next-video event, for another URL, arrives while
\* the resolution of a first one is pending, the Media resolved for the first
\* event's URL is never loaded, whichever resolution completes first.
C1_FirstOfTwoNeverLoaded ==
  \A j \in DOMAIN requests : \A i \in requests[j].overtook :
    ( /\ requests[i].kind = "getMediaByUrl"
      /\ requests[j].kind = "getMediaByUrl"
      /\ requests[i].url # requests[j].url )
    => ~Loaded(i)

\* C2: whenever the load step runs for a resolution, the resolution's
\* originating URL equals the tracked URL at that moment.
C2_LoadOnlyIfOriginIsTracked ==
  \A i \in DOMAIN requests : Loaded(i) => requests[i].trackedAtLoad = requests[i].url

\* C3: when a media resolution rejects, no rejection escapes the handler and
\* the load step is not run for it.
C3_RejectionCaught ==
  \A i \in DOMAIN requests :
    requests[i].status = "rejected" => escaped = 0 /\ ~Loaded(i)

\* C4: at most one tracker is active, it is the one _tracking refers to, and
\* every tracker was created at a moment when no tracker was active.
C4_AtMostOneActiveTracker ==
  /\ Cardinality(Active(trackers)) <= 1
  /\ \A tr \in Active(trackers) : tracking = tr.media
  /\ \A k \in CallsNamed(last.calls, "newTracker") : last.calls[k].activeBefore = 0

\* C4 happens: the load step replaced an active tracker by a new one.
C4_Witness ==
  /\ last.op = "resolved"
  /\ CallsNamed(last.calls, "dispose") # {}
  /\ CallsNamed(last.calls, "newTracker") # {}
  /\ \E tr \in trackers : tr.disposed

\* C5: a fullscreenchange handled while changedMedia is false writes nothing
\* to location, in fullscreen or out of it, whatever the tracked URL and the
\* current time.
C5_NoRedirectUnlessChanged ==
  [][ (last'.op = "fullscreenchange" /\ ~changedMedia)
        => (last'.calls = << >> /\ UNCHANGED <<url, changedMedia>>) ]_vars

\* C5 happens: fullscreen was exited and the event handled with changedMedia
\* false and a tracked URL that carries query parameters of its own.
C5_Witness ==
  /\ last.op = "fullscreenchange"
  /\ last.arg.currentTime10 > 0
  /\ player # NoPlayer
  /\ ~fullscreen
  /\ ~changedMedia
  /\ \E i \in DOMAIN requests : Loaded(i)

\* The value v written to location for tracked URL u at time ct10: same path
\* and hash, t is the floor of the time, every other parameter of u is kept
\* with its value, and nothing else is added.
IsRedirectOf(v, u, ct10) ==
  LET was == ParseQuery(u.query)
      now == ParseQuery(v.query)
  IN  /\ v.path = u.path
      /\ v.hash = u.hash
      /\ Keys(now) = Keys(was) \cup {"t"}
      /\ \E n \in 0..MaxTime10 :
            /\ 10 * n <= ct10
            /\ ct10 < 10 * n + 10
            /\ ObjGet(now, "t") = NumToString(n)
      /\ \A k \in Keys(was) \ {"t"} : ObjGet(now, k) = ObjGet(was, k)

\* C6: a fullscreenchange handled with changedMedia true and the player out
\* of fullscreen writes to location, once, the tracked URL (the URL of the
\* most recent honored next-video event) with t set to floor(currentTime) and
\* its other query parameters kept; in fullscreen nothing is written.
C6_RedirectToTrackedUrl ==
  [][ (last'.op = "fullscreenchange" /\ changedMedia)
        => IF fullscreen
           THEN last'.calls = << >>
           ELSE /\ Len(last'.calls) = 1
                /\ last'.calls[1].call = "location.href"
                /\ IsRedirectOf(last'.calls[1].value, url,
                                last'.arg.currentTime10)
                /\ requests[Len(requests)].kind = "getMediaByUrl"
                /\ requests[Len(requests)].url = url ]_vars

\* C6 happens: a redirect to a tracked URL that had parameters lang and t,
\* at a time that is not a whole second.
C6_Witness ==
  /\ last.op = "fullscreenchange"
  /\ Len(last.calls) = 1
  /\ last.arg.currentTime10 = MaxTime10
  /\ Keys(ParseQuery(url.query)) = {"lang", "t"}
  /\ Len(last.calls[1].value.query) = 2

\* C7: a nextvideo event handled while the player is not in fullscreen
\* changes nothing: changedMedia, the tracked URL, the trackers, the player's
\* config and the resolutions stay as they are, and the handler makes no
\* call (no preventDefault, no loadVideoByConfig, no getMediaByUrl).
C7_NextVideoIgnoredOutsideFullscreen ==
  [][ (last'.op = "nextvideo" /\ ~fullscreen)
        => /\ last'.calls = << >>
           /\ UNCHANGED <<changedMedia, url, tracking, trackers, config,
                          requests, escaped, player, listeners>> ]_vars

\* C7 happens: a nextvideo event was ignored while a tracker was active and
\* changedMedia was false.
C7_Witness ==
  /\ last.op = "nextvideo"
  /\ ~fullscreen
  /\ ~changedMedia
  /\ tracking # 0
  /\ Active(trackers) # {}

\* The calls of an honored nextvideo event e, in order: preventDefault, the
\* disposal of the tracker t if there is one, the placeholder, and last the
\* resolution, issued when the tracked URL, changedMedia, the trackers and
\* the player's config are already updated.
IsHonoredCallLog(calls, e, t) ==
  LET n == Len(calls)
      placeholder == calls[n - 1].config
  IN  /\ n = IF t # 0 THEN 4 ELSE 3
      /\ calls[1].call = "preventDefault"
      /\ t # 0 => (calls[2].call = "dispose" /\ calls[2].tracker = t)
      /\ calls[n - 1].call = "loadVideoByConfig"
      /\ placeholder.thumbnailUrl = e.thumbnailUrl
      /\ placeholder.media = 0
      /\ placeholder.source = "placeholder"
      /\ calls[n].call = "getMediaByUrl"
      /\ calls[n].url = e.url
      /\ calls[n].tracked = e.url
      /\ calls[n].changedMedia
      /\ calls[n].active = {}
      /\ calls[n].config = placeholder

\* C8: a nextvideo event handled in fullscreen suppresses the default action,
\* tracks the event's URL, sets changedMedia, disposes the active tracker and
\* loads the thumbnail-only placeholder, all before it issues one resolution;
\* the load step runs exactly once for each resolution that fulfils and never
\* for another, and a tracker is created only when none is active.
C8_HonoredNextVideo ==
  [][ /\ (last'.op = "nextvideo" /\ fullscreen)
         => /\ IsHonoredCallLog(last'.calls, last'.arg, tracking)
            /\ url' = last'.arg.url
            /\ changedMedia'
            /\ tracking' = 0
            /\ Active(trackers') = {}
            /\ config' = last'.calls[Len(last'.calls) - 1].config
            /\ Len(requests') = Len(requests) + 1
            /\ requests'[Len(requests')].url = last'.arg.url
            /\ requests'[Len(requests')].status = "pending"
      /\ \A i \in DOMAIN requests' :
            requests'[i].loads = IF requests'[i].status = "resolved" THEN 1 ELSE 0
      /\ \A k \in CallsNamed(last'.calls, "newTracker") :
            last'.calls[k].activeBefore = 0 ]_vars

\* C8 happens: an honored nextvideo event disposed an active tracker, and
\* its resolution has been loaded with a new tracker.
C8_Witness ==
  /\ last.op = "resolved"
  /\ changedMedia
  /\ requests[last.arg.req].kind = "getMediaByUrl"
  /\ \E tr \in trackers : tr.disposed
  /\ tracking = last.arg.req

\* C9: changedMedia is false initially, turns true only in the handling of a
\* nextvideo event in fullscreen, and no step turns it false again.
C9_ChangedMediaNeverReset ==
  /\ ~changedMedia
  /\ [][ /\ changedMedia => changedMedia'
         /\ (~changedMedia /\ changedMedia')
              => (last'.op = "nextvideo" /\ fullscreen /\ player # NoPlayer) ]_vars

\* C9 happens: changedMedia is still true after the next media was loaded
\* and fullscreen was left.
C9_Witness ==
  /\ changedMedia
  /\ ~fullscreen
  /\ last.op = "fullscreenchange"
  /\ \E i \in DOMAIN requests :
        requests[i].kind = "getMediaByUrl" /\ Loaded(i)

\* C10: the readiness callback runs once (only while no handle is stored);
\* each of the two listeners is registered exactly once, in that callback
\* (none without a player handle, one with it); and an event handled before
\* the handle exists changes nothing and makes no call.
C10_NoEventBeforePlayer ==
  /\ \A n \in EventNames : listeners[n] = IF player = NoPlayer THEN 0 ELSE 1
  /\ [][ /\ last'.op = "playerready"
            => /\ player = NoPlayer
               /\ \A n \in EventNames :
                    Cardinality({k \in CallsNamed(last'.calls, "listen") :
                                   last'.calls[k].event = n}) = 1
         /\ listeners' # listeners => last'.op = "playerready"
         /\ (player = NoPlayer
             /\ last'.op \in {"fullscreenchange", "nextvideo", "sizechange"})
            => /\ last'.calls = << >>
               /\ UNCHANGED <<player, listeners, url, changedMedia, tracking,
                              trackers, requests, config, escaped,
                              fullscreen>> ]_vars

\* C10 happens: a size change was requested, with the layout containers
\* present and the player playing, before the player handle existed.
C10_Witness ==
  /\ last.op = "sizechange"
  /\ player = NoPlayer
  /\ last.arg.containers
  /\ last.arg.playing


----------------------------------------------------------------------------
\* One ProgressTracker (VideoTracker) and trackProgress (lines 6-26).

\* Bound on the reports one tracker issues.
MaxReports == 3

\* Bound on the dispose() calls made on one tracker.
MaxDisposals == 2

\* Playhead times reported, in seconds.
Playheads == {0, 9}

\* The fields of the body trackProgress posts that vary in one tracker's
\* life; the elapsed time is left out.
TrackProgress(media, currentTime, count) ==
  [media_id |-> media, playhead |-> currentTime, cbcallcount |-> count]

\* The tracker as constructed for media 1: counter at zero, timer running.
TrackerInit ==
  /\ callCount = 0
  /\ timerOn = TRUE
  /\ tickPending = FALSE
  /\ disposals = 0
  /\ reports = << >>
  /\ trackerLast = [op |-> "new", arg |-> NoArg, thrown |-> FALSE]

\* The tracker's state after one report attempt at playhead t: the post is
\* in flight and the attempt is counted whatever becomes of it.
Report(opName, t) ==
  /\ reports' = Append(reports, [body |-> TrackProgress(1, t, callCount),
                                 status |-> "pending"])
  /\ callCount' = callCount + 1
  /\ trackerLast' = [op |-> opName, arg |-> [playhead |-> t], thrown |-> FALSE]

\* The periodic timer expires: its callback is queued.
TimerExpires ==
  /\ timerOn
  /\ ~tickPending
  /\ tickPending' = TRUE
  /\ trackerLast' = [op |-> "expire", arg |-> NoArg, thrown |-> FALSE]
  /\ UNCHANGED <<callCount, timerOn, disposals, reports>>
  /\ UNCHANGED <<orchestratorVars, sliderVars>>

\* The queued timer callback runs: one report attempt.
Tick(t) ==
  /\ tickPending
  /\ timerOn
  /\ Len(reports) < MaxReports
  /\ tickPending' = FALSE
  /\ Report("tick", t)
  /\ UNCHANGED <<timerOn, disposals>>
  /\ UNCHANGED <<orchestratorVars, sliderVars>>

\* A playback-state transition of the player the tracker listens to: one
\* report attempt.
PlaybackTransition(t) ==
  /\ disposals = 0
  /\ Len(reports) < MaxReports
  /\ Report("transition", t)
  /\ UNCHANGED <<timerOn, tickPending, disposals>>
  /\ UNCHANGED <<orchestratorVars, sliderVars>>

\* A settlement after which a failed report stops the timer.
ReportSettleStopsOnFailure(i, ok) ==
  /\ i \in 1..Len(reports)
  /\ reports[i].status = "pending"
  /\ reports' = [reports EXCEPT ![i].status = IF ok THEN "ok" ELSE "failed"]
  /\ timerOn' = (timerOn /\ ok)
  /\ trackerLast' = [op |-> "settle", arg |-> [report |-> i, ok |-> ok],
                     thrown |-> FALSE]
  /\ UNCHANGED <<callCount, tickPending, disposals>>
  /\ UNCHANGED <<orchestratorVars, sliderVars>>

\* The post of report i settles: trackProgress fulfils or rejects with it,
\* and the tracker keeps a rejection to itself.
ReportSettle(i, ok) ==
  /\ i \in 1..Len(reports)
  /\ reports[i].status = "pending"
  /\ reports' = [reports EXCEPT ![i].status = IF ok THEN "ok" ELSE "failed"]
  /\ trackerLast' = [op |-> "settle", arg |-> [report |-> i, ok |-> ok],
                     thrown |-> FALSE]
  /\ UNCHANGED <<callCount, timerOn, tickPending, disposals>>
  /\ UNCHANGED <<orchestratorVars, sliderVars>>

\* A dispose() that leaves the timer running.
DisposeKeepsTimer ==
  /\ disposals < MaxDisposals
  /\ disposals' = disposals + 1
  /\ trackerLast' = [op |-> "dispose", arg |-> [tickPending |-> tickPending],
                     thrown |-> FALSE]
  /\ UNCHANGED <<callCount, timerOn, tickPending, reports>>
  /\ UNCHANGED <<orchestratorVars, sliderVars>>

\* dispose(): stops the timer, a queued callback included, and releases the
\* listeners; reports in flight are left to settle.
Dispose ==
  /\ disposals < MaxDisposals
  /\ disposals' = disposals + 1
  /\ timerOn' = FALSE
  /\ tickPending' = FALSE
  /\ trackerLast' = [op |-> "dispose", arg |-> [tickPending |-> tickPending],
                     thrown |-> FALSE]
  /\ UNCHANGED <<callCount, reports>>
  /\ UNCHANGED <<orchestratorVars, sliderVars>>

TrackerNext ==
  \/ TimerExpires
  \/ \E t \in Playheads : Tick(t)
  \/ \E t \in Playheads : PlaybackTransition(t)
  \/ \E i \in 1..MaxReports, ok \in BOOLEAN : ReportSettle(i, ok)
  \/ Dispose

\* A new tracker beside an orchestrator and a slider that stay idle.
TrackerSpecInit == OrchestratorIdle /\ SliderIdle /\ TrackerInit

TrackerSpec == TrackerSpecInit /\ [][TrackerNext]_vars

----------------------------------------------------------------------------
\* Properties of the slider, under SliderSpec.

\* The slider's bounds are ordered and its value lies within them.
SliderInBounds(v, lo, hi) == lo < hi /\ lo <= v /\ v <= hi

\* C12: in every state of the slider, setValue throws the range violation
\* for any argument outside [minValue, maxValue], and setValue with the
\* current value changes nothing and does not call the player's setSpeed.
C12_SetValueRangeChecked ==
  [][sliderLast'.op = "setValue" =>
       LET v == sliderLast'.arg
       IN  /\ (v < minValue \/ v > maxValue) => sliderLast'.thrown
           /\ v = value =>
                 /\ ~sliderLast'.thrown
                 /\ value' = value
                 /\ sliderLast'.setSpeed = << >>]_vars

\* C19: from a slider with ordered bounds and its value within them, a call
\* of setValue, setMinValue or setMaxValue leaves the bounds ordered and the
\* value within them; a call that throws leaves value and bounds unchanged,
\* and setMinValue and setMaxValue throw only for a bound that does not
\* stay on its side of the other one, never from restraining the value.
C19_BoundsPreserved ==
  [][(/\ sliderLast'.op \in {"setValue", "setMinValue", "setMaxValue"}
      /\ SliderInBounds(value, minValue, maxValue)) =>
       /\ SliderInBounds(value', minValue', maxValue')
       /\ sliderLast'.thrown =>
             /\ UNCHANGED <<value, minValue, maxValue>>
             /\ sliderLast'.op = "setValue" =>
                   (sliderLast'.arg < minValue \/ sliderLast'.arg > maxValue)
             /\ sliderLast'.op = "setMinValue" => sliderLast'.arg >= maxValue
             /\ sliderLast'.op = "setMaxValue" => sliderLast'.arg <= minValue]_vars

\* C19: setMinValue has raised the lower bound above the slider's value and
\* restrained the value to it.
C19_Witness ==
  /\ sliderLast.op = "setMinValue"
  /\ ~sliderLast.thrown
  /\ minValue > MinSpeed
  /\ value = minValue
  /\ sliderLast.setSpeed = << minValue >>

\* C20: a mousedown, mousemove or keydown never throws the range violation
\* and any value it sets lies within [minValue, maxValue]; an arrow key
\* moves the value by one increment restrained to the bounds, Home and End
\* set it to the bounds; a mousemove outside a drag changes nothing, a drag
\* starting with a primary-button mousedown and ending with the next
\* primary-button mouseup.
C20_InputStaysInBounds ==
  [][sliderLast'.op \in {"mousedown", "mousemove", "keydown", "mouseup"} =>
       /\ ~sliderLast'.thrown
       /\ value' # value => (minValue <= value' /\ value' <= maxValue)
       /\ (sliderLast'.op = "keydown" /\ sliderLast'.arg.keyCode = 35) =>
             value' = maxValue
       /\ (sliderLast'.op = "keydown" /\ sliderLast'.arg.keyCode = 36) =>
             value' = minValue
       /\ (sliderLast'.op = "keydown" /\ sliderLast'.arg.keyCode \in {37, 40}) =>
             value' = Clamp(value - IncrementValue, minValue, maxValue)
       /\ (sliderLast'.op = "keydown" /\ sliderLast'.arg.keyCode \in {38, 39}) =>
             value' = Clamp(value + IncrementValue, minValue, maxValue)
       /\ (sliderLast'.op = "mousemove" /\ ~dragging) => value' = value
       /\ (sliderLast'.op = "mousedown" /\ ~dragging) =>
             dragging' = (sliderLast'.arg.button = 0)
       /\ (sliderLast'.op = "mouseup" /\ dragging) =>
             dragging' = (sliderLast'.arg.button # 0)]_vars


----------------------------------------------------------------------------
\* Properties of the tracker, under TrackerSpec.

\* The number of reports the tracker has issued.
Issued == Len(reports)

\* C14: dispose() never throws and leaves the timer stopped; a second
\* dispose() changes nothing of the tracker; and once dispose() has been
\* called the tracker issues no further report, whether or not a timer
\* callback was queued and whether or not a report had succeeded.
C14_DisposeIdempotentAndFinal ==
  /\ [][trackerLast'.op = "dispose" =>
          /\ ~trackerLast'.thrown
          /\ ~timerOn' /\ ~tickPending'
          /\ disposals >= 1 =>
                UNCHANGED <<callCount, timerOn, tickPending, reports>>]_vars
  /\ [][disposals >= 1 =>
          (Len(reports') = Len(reports) /\ callCount' = callCount)]_vars

\* C14: dispose() was called twice on a tracker none of whose reports had
\* succeeded and one of whose reports is still in flight.
C14_Witness ==
  /\ disposals = 2
  /\ trackerLast.op = "dispose"
  /\ \A i \in 1..Len(reports) : reports[i].status # "ok"
  /\ \E i \in 1..Len(reports) : reports[i].status = "pending"

\* C15: the attempt counter starts at zero and goes up by exactly one with
\* every report attempt and with nothing else, whatever became of earlier
\* reports; a failed report neither throws out of the tracker nor stops the
\* timer.
C15_CounterCountsAttempts ==
  /\ [](trackerLast.op = "new" => callCount = 0)
  /\ [](callCount = Issued)
  /\ [][IF Len(reports') = Len(reports) + 1
        THEN callCount' = callCount + 1
        ELSE callCount' = callCount]_vars
  /\ [][(trackerLast'.op = "settle" /\ ~trackerLast'.arg.ok) =>
          /\ ~trackerLast'.thrown
          /\ timerOn' = timerOn
          /\ tickPending' = tickPending]_vars

\* C15: a report was attempted after an earlier report had failed, and the
\* counter stands at the number of attempts.
C15_Witness ==
  /\ trackerLast.op = "tick"
  /\ callCount = 2
  /\ reports[1].status = "failed"

====
